---------------------------- MODULE Spec2Model ----------------------------
(***************************************************************************)
(* Webcam recorder with image extraction                                   *)
(* (src/webcam_recorder_with_image_extraction.py).                         *)
(*                                                                         *)
(* Three kinds of activity run in one process:                             *)
(*   - the capture thread (capture_frames), a daemon thread;               *)
(*   - the Tk main thread, which runs the handlers toggle_recording,       *)
(*     start_recording, stop_recording, update_preview and on_closing one  *)
(*     after the other (a handler is never re-entered);                    *)
(*   - one daemon thread per extraction job (extract_images_from_video).   *)
(* Each handler is cut at the points where another thread can observe or   *)
(* change the shared state; the position of each thread is part of the     *)
(* state (cap_pc, ui_pc, jobs[j].state).                                   *)
(*                                                                         *)
(* The index sampler of extract_images_from_video is a pure function; it   *)
(* is the operator FrameIndices, used by the extraction job and checked on *)
(* its own under SpecSampler.                                              *)
(*                                                                         *)
(* The image viewer (src/web_app.py) is a separate program, a Streamlit    *)
(* script; its runs are the behaviours of SpecViewer.                      *)
(***************************************************************************)
EXTENDS Integers, Sequences, FiniteSets, TLC

\* ----------------------------------------------------------- configuration
\* Program constants (lines 38-49 of the source).
BUFFER_SIZE == 3
NUM_IMAGES_TO_EXTRACT == 100
FRAME_INTERVAL == 30
EXTRACTION_METHOD == "evenly_spaced"

\* Bounds of the model. A run is followed while the camera has delivered at
\* most MaxFrames frames and start_recording has got to create at most one
\* video writer, or while the camera has delivered at most MaxRestartFrames
\* frames and start_recording has got to create at most MaxStarts of them.
MaxFrames == 4
MaxRestartFrames == 1
MaxStarts == 2
\* Inputs of the sampler under SpecSampler: requested count, total frame
\* count, stride.
MaxN == 12
MaxT == 100
MaxK == 3

\* self.video_writer = None
NoWriter == 0

VARIABLES
    camera,                  \* self.camera: "none" | "unopened" | "opened" | "released"
    is_recording,            \* self.is_recording
    video_writer,            \* self.video_writer: NoWriter or an index into writers
    current_video_timestamp, \* self.current_video_timestamp (0 = None); names the path too
    frame_queue,             \* self.frame_queue: sequence of frame numbers, head = oldest
    running,                 \* self.running
    camera_lock,             \* self.camera_lock: "free" | "capture"
    frames_recorded,         \* self.frames_recorded
    writers,                 \* every cv2.VideoWriter created so far: [path, state]
    files,                   \* path -> number of frames in the video file at that path
    frames_read,             \* frames delivered by the camera so far; the last one is `frame`
    read_idle,               \* the frame in hand was read (line 237) with is_recording false
    cap_pc,                  \* position of the capture thread
    ui_pc,                   \* position of the Tk main thread
    stop_caller,             \* who called stop_recording: "toggle" | "closing"
    preview_scheduled,       \* window.after(16, update_preview) is pending
    jobs,                    \* extraction threads started so far
    sampler,                 \* the sampler on its own (SpecSampler)
    start_rejected,          \* start_recording has returned at line 317
    viewer                   \* the image viewer (src/web_app.py, SpecViewer)

vars == << camera, is_recording, video_writer, current_video_timestamp,
           frame_queue, running, camera_lock, frames_recorded, writers, files,
           frames_read, read_idle, cap_pc, ui_pc, stop_caller, preview_scheduled, jobs,
           sampler, start_rejected, viewer >>

recVars   == << is_recording, video_writer, frames_recorded, writers, files >>
uiVars    == << ui_pc, stop_caller, current_video_timestamp, preview_scheduled >>
capVars   == << cap_pc, frames_read, read_idle, camera_lock >>

Min(a, b) == IF a <= b THEN a ELSE b

\* ------------------------------------------------------------- the sampler
\* list(range(n))
Range(n) == [i \in 1..n |-> i - 1]

\* list(range(0, total, step)) for step >= 1
RangeStep(total, step) ==
    [i \in 1..((total + step - 1) \div step) |-> (i - 1) * step]

\* lst[:n] for n >= 0
Take(lst, n) == SubSeq(lst, 1, Min(n, Len(lst)))

\* Faulty variant of EvenlySpaced: the list comprehension counts i from 1, not from 0.
EvenlySpacedFromOne(N, T) ==
    IF N >= T
    THEN Range(T)
    ELSE [i \in 1..N |-> (i * T) \div N]

\* Faulty variant of EvenlySpaced: the quotient is rounded up, not truncated.
EvenlySpacedCeil(N, T) ==
    IF N >= T
    THEN Range(T)
    ELSE [i \in 1..N |-> ((i - 1) * T + N - 1) \div N]

\* Lines 433-439. int(i * total_frames / N) truncates the float quotient of
\* two non-negative integers; below 2^53 that is the integer quotient.
EvenlySpaced(N, T) ==
    IF N >= T
    THEN Range(T)
    ELSE [i \in 1..N |-> ((i - 1) * T) \div N]

\* Faulty variant of IntervalIndices: the slice [:NUM_IMAGES_TO_EXTRACT] is missing.
IntervalUncapped(N, T, K) == RangeStep(T, K)

\* Line 442.
IntervalIndices(N, T, K) == Take(RangeStep(T, K), N)

\* Lines 431-442.
FrameIndices(method, N, T, K) ==
    IF method = "evenly_spaced"
    THEN EvenlySpaced(N, T)
    ELSE IntervalIndices(N, T, K)

\* ------------------------------------------------------------ frame queue
\* Faulty variant of QueueMaxsize: the queue is created one slot too large.
QueueMaxsizePlusOne == BUFFER_SIZE + 1

\* queue.Queue(maxsize=BUFFER_SIZE), line 78.
QueueMaxsize == BUFFER_SIZE

\* Queue.full()
QueueFull(q) == QueueMaxsize > 0 /\ Len(q) >= QueueMaxsize

\* Queue.empty()
QueueEmpty(q) == Len(q) = 0

\* Queue.put_nowait(item): raises queue.Full on a full queue, and the caller
\* passes (lines 242-245), so the queue is left as it was.
PutNowait(q, item) == IF QueueFull(q) THEN q ELSE Append(q, item)

\* Queue.get_nowait() returns the item at the head of the FIFO; called only
\* on a non-empty queue (line 275).
GetNowaitItem(q) == Head(q)

\* Faulty variant of GetNowaitRest: the queue of a LifoQueue, which gives up
\* the item put last.
GetNowaitRestLifo(q) == SubSeq(q, 1, Len(q) - 1)

\* The queue get_nowait() leaves behind.
GetNowaitRest(q) == Tail(q)

\* ---------------------------------------------------------- video writers
\* cv2.VideoWriter.isOpened()
WriterIsOpened(w) == w.state = "open"

\* cv2.VideoWriter.write(frame) on the file of writer number vw: an opened
\* writer appends one frame, any other writer ignores the call.
WriteFrame(fs, ws, vw) ==
    IF WriterIsOpened(ws[vw])
    THEN [fs EXCEPT ![ws[vw].path] = @ + 1]
    ELSE fs

\* Faulty variant of ReleaseWriter: stop_recording forgets the writer without
\* releasing it.
ReleaseWriterSkipped(ws, vw) == ws

\* cv2.VideoWriter.release() (line 370): closes an opened writer.
ReleaseWriter(ws, vw) ==
    IF WriterIsOpened(ws[vw])
    THEN [ws EXCEPT ![vw].state = "released"]
    ELSE ws

OpenWriters == { w \in 1..Len(writers) : WriterIsOpened(writers[w]) }

\* The process is gone once the main thread has left mainloop and returned
\* (lines 98, 390: the capture and extraction threads are daemon threads).
ProcessAlive == ui_pc # "exited"

\* ---------------------------------------------------------- capture thread
\* camera.isOpened() of line 234 (self.camera must be set as well).
CameraIsOpened == camera = "opened"

\* Faulty variant of WhileRunning: the loop goes on whatever the flag says.
WhileTrue(run) == TRUE

\* Line 233: while self.running
WhileRunning(run) == run

\* Lines 233-234 and 268-269: the loop ends once self.running is false;
\* without an opened camera it sleeps and tries again.
CapLoop ==
    /\ ProcessAlive
    /\ cap_pc = "loop"
    /\ cap_pc' = IF ~WhileRunning(running) THEN "exited"
                 ELSE IF CameraIsOpened THEN "read" ELSE "loop"
    /\ UNCHANGED << camera, running, frame_queue, frames_read, read_idle,
                    camera_lock,
                    recVars, uiVars, jobs, sampler,
                    start_rejected, viewer >>

\* Calls of start_recording that have passed line 317.
Starts == Len(writers) + (IF ui_pc = "start_writer" THEN 1 ELSE 0)

FrameBound == IF Starts <= 1 THEN MaxFrames ELSE MaxRestartFrames

\* Outcomes of camera.read() (line 237): a frame or none; a camera that was
\* released in the meantime yields none.
ReadOutcomes ==
    IF CameraIsOpened /\ frames_read < FrameBound THEN BOOLEAN ELSE {FALSE}

\* Lines 237-239 and, without a frame, lines 262-267. read_idle remembers
\* for the frame in hand whether a recording was active when it was read,
\* until the frame is let go (line 248) or handed to the writer (line 250).
CapRead ==
    /\ ProcessAlive
    /\ cap_pc = "read"
    /\ \E ret \in ReadOutcomes :
         IF ret
         THEN /\ frames_read' = frames_read + 1
              /\ read_idle' = ~is_recording
              /\ cap_pc' = "full"
         ELSE /\ frames_read' = frames_read
              /\ read_idle' = FALSE
              /\ cap_pc' = "loop"
    /\ UNCHANGED << camera, running, frame_queue, camera_lock,
                    recVars, uiVars, jobs, sampler,
                    start_rejected, viewer >>

\* Faulty variant of AfterFullCheck: a frame the full queue has no room for
\* is given up altogether (a `continue` in place of the skipped put).
AfterFullCheckSkips(q) == IF QueueFull(q) THEN "loop" ELSE "put"

\* Lines 241-248: on a full queue the put of lines 242-245 is skipped and
\* the loop body goes on with line 248.
AfterFullCheck(q) == IF QueueFull(q) THEN "rec" ELSE "put"

\* Line 241: if not self.frame_queue.full()
CapCheckFull ==
    /\ ProcessAlive
    /\ cap_pc = "full"
    /\ cap_pc' = AfterFullCheck(frame_queue)
    /\ UNCHANGED << camera, running, frame_queue, frames_read, read_idle,
                    camera_lock,
                    recVars, uiVars, jobs, sampler,
                    start_rejected, viewer >>

\* Lines 242-245: put_nowait(frame.copy())
CapPut ==
    /\ ProcessAlive
    /\ cap_pc = "put"
    /\ frame_queue' = PutNowait(frame_queue, frames_read)
    /\ cap_pc' = "rec"
    /\ UNCHANGED << camera, running, frames_read, read_idle, camera_lock,
                    recVars, uiVars, jobs, sampler,
                    start_rejected, viewer >>

\* Faulty variant of ShouldWrite: the recording flag is not looked at.
ShouldWriteAnyWriter(recording, writer) == writer # NoWriter

\* Line 248: if self.is_recording and self.video_writer
ShouldWrite(recording, writer) == recording /\ writer # NoWriter

\* Line 248: self.is_recording and self.video_writer, read without the lock.
\* A frame that is not to be written is let go here.
CapCheckRecording ==
    /\ ProcessAlive
    /\ cap_pc = "rec"
    /\ cap_pc' = IF ShouldWrite(is_recording, video_writer)
                 THEN "lock" ELSE "loop"
    /\ read_idle' = (read_idle /\ ShouldWrite(is_recording, video_writer))
    /\ UNCHANGED << camera, running, frame_queue, frames_read, camera_lock,
                    recVars, uiVars, jobs, sampler,
                    start_rejected, viewer >>

\* Line 249: with self.camera_lock
CapAcquire ==
    /\ ProcessAlive
    /\ cap_pc = "lock"
    /\ camera_lock = "free"
    /\ camera_lock' = "capture"
    /\ cap_pc' = "write"
    /\ UNCHANGED << camera, running, frame_queue, frames_read, read_idle,
                    recVars, uiVars, jobs, sampler,
                    start_rejected, viewer >>

\* Line 250: self.video_writer.write(frame). self.video_writer is read again
\* here; on None the call raises AttributeError, the with block gives the
\* lock back and the exception ends the thread.
CapWrite ==
    /\ ProcessAlive
    /\ cap_pc = "write"
    /\ IF video_writer = NoWriter
       THEN /\ cap_pc' = "crashed"
            /\ camera_lock' = "free"
            /\ files' = files
       ELSE /\ cap_pc' = "inc"
            /\ camera_lock' = camera_lock
            /\ files' = WriteFrame(files, writers, video_writer)
    /\ read_idle' = FALSE
    /\ UNCHANGED << camera, running, frame_queue, frames_read, is_recording,
                    video_writer, frames_recorded, writers, uiVars, jobs,
                    sampler,
                    start_rejected, viewer >>

\* Lines 251-259 and the end of the with block.
CapIncrement ==
    /\ ProcessAlive
    /\ cap_pc = "inc"
    /\ frames_recorded' = frames_recorded + 1
    /\ camera_lock' = "free"
    /\ cap_pc' = "loop"
    /\ UNCHANGED << camera, running, frame_queue, frames_read, read_idle,
                    is_recording, video_writer, writers, files, uiVars, jobs,
                    sampler,
                    start_rejected, viewer >>

CaptureFrames ==
    \/ CapLoop \/ CapRead \/ CapCheckFull \/ CapPut \/ CapCheckRecording
    \/ CapAcquire \/ CapWrite \/ CapIncrement

\* ------------------------------------------------------- Tk main thread
\* Faulty variant of ToggleTarget: the button always starts a recording.
ToggleAlwaysStarts(rec) == "start"

\* Lines 307-310: which handler toggle_recording calls.
ToggleTarget(rec) == IF rec THEN "stop" ELSE "start"

\* datetime.now().strftime("%Y%m%d_%H%M%S") (line 320): the clock never runs
\* backwards and has a resolution of one second, so a start reads the second
\* of the previous start or a later one.
Timestamps(prev) == IF prev = 0 THEN {1} ELSE {prev, prev + 1}

\* Faulty variant of StartRejected: the check of lines 315-317 is missing.
StartNeverRejected(cam) == FALSE

\* Lines 315-317: if not self.camera or not self.camera.isOpened(): return
StartRejected(cam) == cam # "opened"

\* toggle_recording (lines 305-310), followed by the entry of the handler it
\* calls: the guard of stop_recording (line 357), the statistics of lines
\* 361-362, or lines 315-322 of start_recording.
ToggleRecording ==
    /\ ui_pc = "idle"
    /\ IF ToggleTarget(is_recording) = "stop"
       THEN /\ ui_pc' = IF is_recording THEN "stop_flag" ELSE "idle"
            /\ stop_caller' = "toggle"
            /\ UNCHANGED current_video_timestamp
       ELSE IF StartRejected(camera)
       THEN UNCHANGED << ui_pc, stop_caller, current_video_timestamp >>
       ELSE /\ Len(writers) < MaxStarts
            /\ Len(writers) >= 1 => frames_read <= MaxRestartFrames
            /\ current_video_timestamp' \in Timestamps(current_video_timestamp)
            /\ ui_pc' = "start_writer"
            /\ UNCHANGED stop_caller
    /\ start_rejected' = (start_rejected \/
                              (ToggleTarget(is_recording) = "start"
                                   /\ StartRejected(camera)))
    /\ UNCHANGED << camera, running, frame_queue, preview_scheduled, capVars,
                    recVars, jobs, sampler, viewer >>

\* Outcomes of cv2.VideoWriter(path, ...): the writer opens, or it does not.
WriterOutcomes == {"open", "failed"}

\* Faulty variant of StartAborts: the check of lines 336-338 is missing.
StartNeverAborts(w) == FALSE

\* Lines 336-338: if not self.video_writer.isOpened(): return
StartAborts(w) == ~WriterIsOpened(w)

\* Lines 327-338: under the lock, self.video_writer = cv2.VideoWriter(path,
\* ...); an opened writer has created or truncated the file. Then, outside
\* the lock, a writer that did not open aborts the start.
StartCreateWriter ==
    /\ ui_pc = "start_writer"
    /\ camera_lock = "free"
    /\ \E state \in WriterOutcomes :
         LET w == [path |-> current_video_timestamp, state |-> state] IN
         /\ writers' = Append(writers, w)
         /\ files' = IF state = "open"
                     THEN [files EXCEPT ![current_video_timestamp] = 0]
                     ELSE files
         /\ ui_pc' = IF StartAborts(w) THEN "idle" ELSE "start_reset"
    /\ video_writer' = Len(writers) + 1
    /\ UNCHANGED << camera, running, frame_queue, capVars, is_recording,
                    frames_recorded, stop_caller, current_video_timestamp,
                    preview_scheduled, jobs, sampler,
                    start_rejected, viewer >>

\* Lines 341-342, outside the lock.
StartReset ==
    /\ ui_pc = "start_reset"
    /\ frames_recorded' = 0
    /\ ui_pc' = "start_flag"
    /\ UNCHANGED << camera, running, frame_queue, capVars, is_recording,
                    video_writer, writers, files, stop_caller,
                    current_video_timestamp, preview_scheduled, jobs, sampler,
                    start_rejected, viewer >>

\* Line 345, outside the lock; lines 348-352 touch the widgets only.
StartSetFlag ==
    /\ ui_pc = "start_flag"
    /\ is_recording' = TRUE
    /\ ui_pc' = "idle"
    /\ UNCHANGED << camera, running, frame_queue, capVars, video_writer,
                    frames_recorded, writers, files, stop_caller,
                    current_video_timestamp, preview_scheduled, jobs, sampler,
                    start_rejected, viewer >>

\* Line 365, outside the lock.
StopClearFlag ==
    /\ ui_pc = "stop_flag"
    /\ is_recording' = FALSE
    /\ ui_pc' = "stop_release"
    /\ UNCHANGED << camera, running, frame_queue, capVars, video_writer,
                    frames_recorded, writers, files, stop_caller,
                    current_video_timestamp, preview_scheduled, jobs, sampler,
                    start_rejected, viewer >>

\* Lines 368-371: under the lock, release the writer and forget it.
StopReleaseWriter ==
    /\ ui_pc = "stop_release"
    /\ camera_lock = "free"
    /\ IF video_writer # NoWriter
       THEN /\ writers' = ReleaseWriter(writers, video_writer)
            /\ video_writer' = NoWriter
       ELSE UNCHANGED << writers, video_writer >>
    /\ ui_pc' = "stop_launch"
    /\ UNCHANGED << camera, running, frame_queue, capVars, is_recording,
                    frames_recorded, files, stop_caller,
                    current_video_timestamp, preview_scheduled, jobs, sampler,
                    start_rejected, viewer >>

\* An extraction thread as threading.Thread(...).start() leaves it; session is
\* the writer whose recording was stopped.
NewJob(session, timestamp) ==
    [ session       |-> session,
      timestamp     |-> timestamp,
      state         |-> "launched",
      total_frames  |-> 0,
      frame_indices |-> << >>,
      idx           |-> 0,
      images        |-> {},
      images_extracted |-> 0 ]

\* Faulty variant of LaunchExtraction: no extraction for a recording without frames.
LaunchUnlessEmpty(js, session, timestamp) ==
    IF frames_recorded = 0 THEN js ELSE Append(js, NewJob(session, timestamp))

\* Lines 387-392: the jobs after stop_recording has started its thread.
LaunchExtraction(js, session, timestamp) ==
    Append(js, NewJob(session, timestamp))

\* The writer of the recording that stop_recording is stopping: the last one
\* created.
StoppedSession == Len(writers)

\* Lines 373-392, then back to the caller: the main loop, or line 510 of
\* on_closing.
StopLaunch ==
    /\ ui_pc = "stop_launch"
    /\ jobs' = LaunchExtraction(jobs, StoppedSession, current_video_timestamp)
    /\ ui_pc' = IF stop_caller = "closing" THEN "close_running" ELSE "idle"
    /\ UNCHANGED << camera, running, frame_queue, capVars, recVars,
                    stop_caller, current_video_timestamp, preview_scheduled,
                    sampler,
                    start_rejected, viewer >>

\* update_preview (lines 272-302): takes one frame if there is one, and
\* schedules itself again while self.running.
UpdatePreview ==
    /\ ui_pc = "idle"
    /\ preview_scheduled
    /\ frame_queue' = IF QueueEmpty(frame_queue)
                      THEN frame_queue
                      ELSE GetNowaitRest(frame_queue)
    /\ preview_scheduled' = running
    /\ UNCHANGED << camera, running, capVars, recVars, ui_pc, stop_caller,
                    current_video_timestamp, jobs, sampler,
                    start_rejected, viewer >>

\* on_closing, lines 506-510: stop_recording if a recording is active.
OnClosing ==
    /\ ui_pc = "idle"
    /\ IF is_recording
       THEN ui_pc' = "stop_flag" /\ stop_caller' = "closing"
       ELSE ui_pc' = "close_running" /\ UNCHANGED stop_caller
    /\ UNCHANGED << camera, running, frame_queue, capVars, recVars,
                    current_video_timestamp, preview_scheduled, jobs, sampler,
                    start_rejected, viewer >>

\* Line 512.
CloseSignal ==
    /\ ui_pc = "close_running"
    /\ running' = FALSE
    /\ ui_pc' = "close_camera"
    /\ UNCHANGED << camera, frame_queue, capVars, recVars, stop_caller,
                    current_video_timestamp, preview_scheduled, jobs, sampler,
                    start_rejected, viewer >>

\* cv2.VideoCapture.release(): a capture that never opened stays as it is.
ReleaseCamera(cam) == IF cam = "opened" THEN "released" ELSE cam

\* Lines 514-516.
CloseCamera ==
    /\ ui_pc = "close_camera"
    /\ camera' = ReleaseCamera(camera)
    /\ ui_pc' = "close_join"
    /\ UNCHANGED << running, frame_queue, capVars, recVars, stop_caller,
                    current_video_timestamp, preview_scheduled, jobs, sampler,
                    start_rejected, viewer >>

\* Thread.is_alive()
CaptureAlive == cap_pc \notin {"exited", "crashed"}

\* Lines 518-519: join(timeout=1.0) returns when the capture thread has ended
\* or when the second is over, whichever comes first.
CloseJoin ==
    /\ ui_pc = "close_join"
    /\ ui_pc' = "close_destroy"
    /\ UNCHANGED << camera, running, frame_queue, capVars, recVars,
                    stop_caller, current_video_timestamp, preview_scheduled,
                    jobs, sampler,
                    start_rejected, viewer >>

\* Line 521 and lines 542-544: window.destroy() drops the pending callbacks
\* and ends mainloop, main returns and the interpreter exits, which ends the
\* daemon threads wherever they are.
CloseDestroy ==
    /\ ui_pc = "close_destroy"
    /\ ui_pc' = "exited"
    /\ preview_scheduled' = FALSE
    /\ UNCHANGED << camera, running, frame_queue, capVars, recVars,
                    stop_caller, current_video_timestamp, jobs, sampler,
                    start_rejected, viewer >>

MainThread ==
    \/ ToggleRecording \/ StartCreateWriter \/ StartReset
    \/ StartSetFlag \/ StopClearFlag \/ StopReleaseWriter \/ StopLaunch
    \/ UpdatePreview \/ OnClosing \/ CloseSignal \/ CloseCamera \/ CloseJoin
    \/ CloseDestroy

\* ------------------------------------------------------ extraction threads
\* Outcomes of cv2.VideoCapture(video_path).isOpened() (lines 415-417).
OpenOutcomes == BOOLEAN

\* Outcomes of seeking to frame_number and reading one frame (lines 451-452):
\* a frame the file does not hold cannot be decoded, one it holds may fail too.
DecodeOutcomes(path, frame_number) ==
    IF frame_number < files[path] THEN BOOLEAN ELSE {FALSE}

\* Lines 409-445: open the video and compute the indices to sample.
ExtractOpen(j) ==
    /\ ProcessAlive
    /\ jobs[j].state = "launched"
    /\ \E ok \in OpenOutcomes :
         jobs' = [jobs EXCEPT ![j] =
             IF ok
             THEN LET total == files[jobs[j].timestamp] IN
                  [@ EXCEPT !.state = "extracting",
                            !.total_frames = total,
                            !.frame_indices =
                                FrameIndices(EXTRACTION_METHOD,
                                             NUM_IMAGES_TO_EXTRACT,
                                             total, FRAME_INTERVAL)]
             ELSE [@ EXCEPT !.state = "failed_open"]]
    /\ UNCHANGED << camera, running, frame_queue, capVars, recVars, uiVars,
                    sampler,
                    start_rejected, viewer >>

\* Line 464: progress = (idx + 1) / num_images * 100 raises ZeroDivisionError
\* for num_images = 0, which the handler of lines 492-496 catches.
\* It is the one exception the statements of the try block raise on their
\* own; failures of the file system (os.makedirs, cv2.imwrite) are not part
\* of the model.
ProgressRaises(num_images) == num_images = 0

\* Lines 455-457: the image of position idx (counted from 0) of the index
\* list is written as image_{idx+1:03d}.jpg.
ImageNumber(idx) == idx + 1

\* Lines 449-471: one turn of the loop over frame_indices.
ExtractFrame(j) ==
    /\ ProcessAlive
    /\ jobs[j].state = "extracting"
    /\ jobs[j].idx < Len(jobs[j].frame_indices)
    /\ \E ret \in DecodeOutcomes(jobs[j].timestamp,
                                 jobs[j].frame_indices[jobs[j].idx + 1]) :
         jobs' = [jobs EXCEPT ![j] =
             IF ~ret
             THEN [@ EXCEPT !.idx = @ + 1]
             ELSE IF ProgressRaises(Len(jobs[j].frame_indices))
             THEN [@ EXCEPT !.images = @ \cup {ImageNumber(jobs[j].idx)},
                            !.images_extracted = @ + 1,
                            !.state = "error"]
             ELSE [@ EXCEPT !.images = @ \cup {ImageNumber(jobs[j].idx)},
                            !.images_extracted = @ + 1,
                            !.idx = @ + 1]]
    /\ UNCHANGED << camera, running, frame_queue, capVars, recVars, uiVars,
                    sampler,
                    start_rejected, viewer >>

\* Lines 473-490: the loop is over.
ExtractFinish(j) ==
    /\ ProcessAlive
    /\ jobs[j].state = "extracting"
    /\ jobs[j].idx = Len(jobs[j].frame_indices)
    /\ jobs' = [jobs EXCEPT ![j].state = "complete"]
    /\ UNCHANGED << camera, running, frame_queue, capVars, recVars, uiVars,
                    sampler,
                    start_rejected, viewer >>

\* images_extracted (lines 448, 461)
ImagesExtracted(job) == job.images_extracted

ExtractImages ==
    \E j \in 1..Len(jobs) : ExtractOpen(j) \/ ExtractFrame(j) \/ ExtractFinish(j)

\* ------------------------------------------------------------ the program
SamplerIdle == [pc |-> "idle"]

\* The viewer is a program of its own; it is not running here.
ViewerIdle == [pc |-> "off"]

\* __init__ (lines 61-102): initialize_camera leaves self.camera unset (the
\* constructor raised), set but not opened, or opened; update_preview has run
\* once on the empty queue and is scheduled again.
Init ==
    /\ camera \in {"none", "unopened", "opened"}
    /\ is_recording = FALSE
    /\ video_writer = NoWriter
    /\ current_video_timestamp = 0
    /\ frame_queue = << >>
    /\ running = TRUE
    /\ camera_lock = "free"
    /\ frames_recorded = 0
    /\ writers = << >>
    /\ files = [p \in 1..MaxStarts |-> 0]
    /\ frames_read = 0
    /\ read_idle = FALSE
    /\ cap_pc = "loop"
    /\ ui_pc = "idle"
    /\ stop_caller = "toggle"
    /\ preview_scheduled = TRUE
    /\ jobs = << >>
    /\ sampler = SamplerIdle
    /\ start_rejected = FALSE
    /\ viewer = ViewerIdle

Next == CaptureFrames \/ MainThread \/ ExtractImages

Spec == Init /\ [][Next]_vars

\* The capture thread is a thread of its own (lines 98-99): while the process
\* lives and the thread has a step to take, the interpreter lets it take it.
\* Nothing is assumed of the main thread, whose steps wait for the user.
FairSpec == Spec /\ WF_vars(CaptureFrames)

\* ------------------------------------------------- the sampler on its own
SamplerInputs ==
    [ pc : {"input"}, method : {"evenly_spaced", "interval"},
      N : 0..MaxN, T : 0..MaxT, K : 1..MaxK ]

InitSampler ==
    /\ camera = "none"
    /\ is_recording = FALSE
    /\ video_writer = NoWriter
    /\ current_video_timestamp = 0
    /\ frame_queue = << >>
    /\ running = TRUE
    /\ camera_lock = "free"
    /\ frames_recorded = 0
    /\ writers = << >>
    /\ files = [p \in 1..MaxStarts |-> 0]
    /\ frames_read = 0
    /\ read_idle = FALSE
    /\ cap_pc = "loop"
    /\ ui_pc = "idle"
    /\ stop_caller = "toggle"
    /\ preview_scheduled = TRUE
    /\ jobs = << >>
    /\ sampler \in SamplerInputs
    /\ start_rejected = FALSE
    /\ viewer = ViewerIdle

\* Lines 431-444 on the inputs drawn by InitSampler.
SamplerCompute ==
    /\ sampler.pc = "input"
    /\ sampler' = [ pc |-> "done", method |-> sampler.method,
                    N |-> sampler.N, T |-> sampler.T, K |-> sampler.K,
                    frame_indices |->
                        FrameIndices(sampler.method, sampler.N, sampler.T,
                                     sampler.K) ]
    /\ UNCHANGED << camera, running, frame_queue, capVars, recVars, uiVars,
                    jobs, start_rejected, viewer >>

NextSampler == SamplerCompute

SpecSampler == InitSampler /\ [][NextSampler]_vars

\* --------------------------------------------- the image viewer (web_app.py)
\* The viewer is a Streamlit script: every interaction of the user with a
\* widget runs main() again from the top, with st.session_state (images,
\* current_index) and the state of the widgets kept from the run before.
\* viewer.pc is the position of the script: "wait" (the run is over), "upload"
\* (line 84), "navigation" (line 108), "display" (line 156), "crashed".
\*   viewer.uploaded  what st.file_uploader returns (line 78)
\*   viewer.slider    the value of the slider "image_slider", NoSlider while
\*                    the slider is not on the page
\*   viewer.clicked   the button whose click started this run
\*   viewer.slider_args  the maximum and the default of the last call of
\*                    st.slider, NoSliderArgs while the slider is not on the
\*                    page
\*   viewer.action    the last thing the user did, and viewer.shown the index
\*                    that was on the page then (kept for the properties)

\* web_app.py, line 10
MAX_FILE_SIZE == 50 * 1024 * 1024

\* web_app.py, line 11
ALLOWED_EXTENSIONS == << ".png", ".jpg", ".jpeg", ".gif", ".bmp" >>

\* Files offered to the uploader: a file is the suffix of its name, as
\* written, and its size. At most MaxBatch files are in the uploader at a time.
MaxBatch == 2
Suffixes == {".png", ".JPG", ".exe"}
Sizes == {MAX_FILE_SIZE, MAX_FILE_SIZE + 1}
UploadFiles == [suffix : Suffixes, size : Sizes]
Batches == UNION { [1..n -> UploadFiles] : n \in 0..MaxBatch }

NoSlider == -1

\* str.lower() on the suffixes of the model.
Lower(suffix) ==
    CASE suffix = ".PNG" -> ".png"
      [] suffix = ".JPG" -> ".jpg"
      [] suffix = ".EXE" -> ".exe"
      [] OTHER -> suffix

\* x in list
InList(x, list) == \E i \in 1..Len(list) : list[i] = x

\* validate_file_security (lines 23-34), the first component of its result.
ValidateFileSecurity(file) ==
    LET file_ext == Lower(file.suffix) IN
    IF ~InList(file_ext, ALLOWED_EXTENSIONS) THEN FALSE
    ELSE IF file.size > MAX_FILE_SIZE THEN FALSE
    ELSE TRUE

\* Lines 86-91: the loop over the files still to look at.
RECURSIVE AppendValid(_, _)
AppendValid(uploaded_files, valid_images) ==
    IF uploaded_files = << >> THEN valid_images
    ELSE AppendValid(Tail(uploaded_files),
                     IF ValidateFileSecurity(Head(uploaded_files))
                     THEN Append(valid_images, Head(uploaded_files))
                     ELSE valid_images)

\* Faulty variant of ValidImages: the loop gives up at the first file that
\* is not valid.
RECURSIVE ValidImagesUntilInvalid(_)
ValidImagesUntilInvalid(uploaded_files) ==
    IF uploaded_files = << >> \/ ~ValidateFileSecurity(Head(uploaded_files)) THEN << >>
    ELSE << Head(uploaded_files) >> \o ValidImagesUntilInvalid(Tail(uploaded_files))

\* Lines 85-91: valid_images
ValidImages(uploaded_files) == AppendValid(uploaded_files, << >>)

recorderVars ==
    << camera, running, frame_queue, capVars, recVars, uiVars, jobs,
       start_rejected >>

Buttons == {"previous", "next", "first", "last", "new_session"}

\* The user changes the files in the uploader, moves the slider or clicks a
\* button; the widgets of lines 115-153 are on the page only if the last
\* run found images at line 108. Streamlit then runs the script.
ViewerInteract ==
    /\ viewer.pc = "wait"
    /\ \/ \E batch \in Batches \ {viewer.uploaded} :
             viewer' = [viewer EXCEPT !.pc = "upload", !.uploaded = batch,
                                      !.clicked = "none",
                                      !.action = "upload",
                                      !.shown = viewer.current_index]
       \/ /\ viewer.images # << >>
          /\ \E v \in (0..(Len(viewer.images) - 1)) \ {viewer.slider} :
                viewer' = [viewer EXCEPT !.pc = "upload", !.slider = v,
                                         !.clicked = "none",
                                         !.action = "slider",
                                         !.shown = viewer.current_index]
       \/ /\ viewer.images # << >>
          /\ \E b \in Buttons :
                viewer' = [viewer EXCEPT !.pc = "upload", !.clicked = b,
                                         !.action = b,
                                         !.shown = viewer.current_index]
    /\ UNCHANGED << recorderVars, sampler >>

\* Lines 84-96: a batch with at least one valid file replaces the images and
\* resets the index.
ViewerUploadBlock ==
    /\ viewer.pc = "upload"
    /\ LET valid_images == ValidImages(viewer.uploaded) IN
       viewer' = IF viewer.uploaded # << >> /\ valid_images # << >>
                 THEN [viewer EXCEPT !.pc = "navigation",
                                     !.images = valid_images,
                                     !.current_index = 0]
                 ELSE [viewer EXCEPT !.pc = "navigation"]
    /\ UNCHANGED << recorderVars, sampler >>

NoSliderArgs == << NoSlider, NoSlider >>

\* The maximum and the default that lines 115-121 pass to st.slider.
SliderArgs == << Len(viewer.images) - 1, viewer.current_index >>

\* What st.slider returns (lines 115-121). Called with the arguments of its
\* last call, the widget returns the value it holds. Called with another
\* maximum or default, it returns the value it holds if that is within the
\* range, or starts anew with the default of line 119: which of the two
\* depends on the Streamlit release.
SliderOutcomes ==
    IF SliderArgs = viewer.slider_args
    THEN {viewer.slider}
    ELSE {viewer.current_index} \cup
         (IF viewer.slider \in 0..(Len(viewer.images) - 1)
          THEN {viewer.slider} ELSE {})

\* Lines 127-153 with current_index = index: the new images and index, and
\* whether st.rerun() was called.
AfterButtons(clicked, images, index) ==
    CASE clicked = "previous" ->
             IF index > 0
             THEN [images |-> images, index |-> index - 1, rerun |-> TRUE]
             ELSE [images |-> images, index |-> index, rerun |-> FALSE]
      [] clicked = "next" ->
             IF index < Len(images) - 1
             THEN [images |-> images, index |-> index + 1, rerun |-> TRUE]
             ELSE [images |-> images, index |-> index, rerun |-> FALSE]
      [] clicked = "first" ->
             [images |-> images, index |-> 0, rerun |-> TRUE]
      [] clicked = "last" ->
             [images |-> images, index |-> Len(images) - 1, rerun |-> TRUE]
      [] clicked = "new_session" ->
             [images |-> << >>, index |-> 0, rerun |-> TRUE]
      [] OTHER ->
             [images |-> images, index |-> index, rerun |-> FALSE]

\* Lines 108-153: the slider sets the index, then the button that was
\* clicked acts on it; st.rerun() starts the script again at once.
ViewerNavigation ==
    /\ viewer.pc = "navigation"
    /\ IF viewer.images = << >>
       THEN viewer' = [viewer EXCEPT !.pc = "display", !.slider = NoSlider,
                                     !.slider_args = NoSliderArgs,
                                     !.clicked = "none"]
       ELSE \E new_index \in SliderOutcomes :
              LET after == AfterButtons(viewer.clicked, viewer.images,
                                        new_index) IN
              viewer' = [viewer EXCEPT
                  !.pc = IF after.rerun THEN "upload" ELSE "display",
                  !.images = after.images,
                  !.current_index = after.index,
                  !.slider = new_index,
                  !.slider_args = SliderArgs,
                  !.clicked = "none"]
    /\ UNCHANGED << recorderVars, sampler >>

\* Lines 156-158: images[current_index] is read outside the try block.
ViewerDisplay ==
    /\ viewer.pc = "display"
    /\ viewer' = [viewer EXCEPT !.pc =
           IF viewer.images = << >>
                  \/ viewer.current_index \in 0..(Len(viewer.images) - 1)
           THEN "wait" ELSE "crashed"]
    /\ UNCHANGED << recorderVars, sampler >>

\* Lines 19-21 and the first run of main(): nothing is uploaded, the welcome
\* screen is shown.
InitViewer ==
    /\ camera = "none"
    /\ is_recording = FALSE
    /\ video_writer = NoWriter
    /\ current_video_timestamp = 0
    /\ frame_queue = << >>
    /\ running = TRUE
    /\ camera_lock = "free"
    /\ frames_recorded = 0
    /\ writers = << >>
    /\ files = [p \in 1..MaxStarts |-> 0]
    /\ frames_read = 0
    /\ read_idle = FALSE
    /\ cap_pc = "loop"
    /\ ui_pc = "idle"
    /\ stop_caller = "toggle"
    /\ preview_scheduled = TRUE
    /\ jobs = << >>
    /\ sampler = SamplerIdle
    /\ start_rejected = FALSE
    /\ viewer = [ pc |-> "wait", images |-> << >>, current_index |-> 0,
                  uploaded |-> << >>, slider |-> NoSlider, clicked |-> "none",
                  slider_args |-> NoSliderArgs, action |-> "none", shown |-> 0 ]

NextViewer ==
    ViewerInteract \/ ViewerUploadBlock \/ ViewerNavigation \/ ViewerDisplay

SpecViewer == InitViewer /\ [][NextViewer]_vars

\* ================================================================ claims
QueueFrames == { frame_queue[i] : i \in 1..Len(frame_queue) }

\* The capture thread is at its publish step (lines 241-245).
AtPublish == cap_pc \in {"full", "put"}

\* C1: the frame queue never holds more than BUFFER_SIZE frames; the publish
\* step of the capture thread can always be taken (it never waits), and when
\* it finds the queue full it leaves the queue as it is and goes on to the
\* recording check, whatever update_preview does in between.
C1_QueueBoundedNeverBlocks ==
    /\ [](Len(frame_queue) <= BUFFER_SIZE)
    /\ []((AtPublish /\ ProcessAlive) => ENABLED (CapCheckFull \/ CapPut))
    /\ [][(AtPublish /\ cap_pc' # cap_pc /\ Len(frame_queue) = BUFFER_SIZE)
             => (frame_queue' = frame_queue /\ cap_pc' = "rec")]_vars

\* C1 witness: a frame was read while the queue was full and has been
\* dropped: the capture thread is past the publish step, the queue is full
\* and the frame just read is not in it.
C1_Witness ==
    /\ cap_pc = "rec"
    /\ Len(frame_queue) = BUFFER_SIZE
    /\ frames_read \notin QueueFrames

\* C2: at most one video writer is open, it is the one self.video_writer
\* names, and an active recording has exactly that writer open: no start
\* creates a second writer beside an open one.
C2_SingleSessionSingleWriter ==
    /\ Cardinality(OpenWriters) <= 1
    /\ OpenWriters \subseteq {video_writer}
    /\ is_recording => OpenWriters = {video_writer}

\* C2 witness: a second recording is active after a first one was stopped.
C2_Witness ==
    /\ Len(writers) = 2
    /\ writers[1].state = "released"
    /\ is_recording
    /\ video_writer = 2

SamplerDone(method) == sampler.pc = "done" /\ sampler.method = method

StrictlyIncreasing(seq) ==
    \A i \in 1..(Len(seq) - 1) : seq[i] < seq[i + 1]

\* C3: for every requested count N >= 0 and total T >= 0 the evenly spaced
\* sampler yields exactly min(N, T) indices, strictly increasing (hence
\* pairwise distinct) and all in 0..T-1.
C3_EvenlySpacedShape ==
    SamplerDone("evenly_spaced") =>
        /\ Len(sampler.frame_indices) = Min(sampler.N, sampler.T)
        /\ StrictlyIncreasing(sampler.frame_indices)
        /\ \A i \in 1..Len(sampler.frame_indices) :
               sampler.frame_indices[i] \in 0..(sampler.T - 1)

\* C3 witness: the sampler has run with fewer indices requested than frames
\* available, and more than one requested.
C3_Witness ==
    /\ SamplerDone("evenly_spaced")
    /\ sampler.N >= 2
    /\ sampler.N < sampler.T
    /\ Len(sampler.frame_indices) = sampler.N

\* C4: the evenly spaced sampler yields 0, 1, ..., T-1 when N >= T, and
\* otherwise N indices whose i-th (from 0) is floor(i * T / N), i.e. the q
\* with N*q <= i*T < N*(q+1); T = 100, N = 10 gives 0, 10, ..., 90 and
\* T = 5, N = 10 gives 0, 1, 2, 3, 4.
C4_EvenlySpacedValues ==
    SamplerDone("evenly_spaced") =>
        LET N == sampler.N
            T == sampler.T
            got == sampler.frame_indices
        IN  /\ N >= T =>
                /\ Len(got) = T
                /\ \A i \in 1..T : got[i] = i - 1
            /\ N < T =>
                /\ Len(got) = N
                /\ \A i \in 1..N :
                       /\ N * got[i] <= (i - 1) * T
                       /\ (i - 1) * T < N * (got[i] + 1)
            /\ (T = 100 /\ N = 10) =>
                got = << 0, 10, 20, 30, 40, 50, 60, 70, 80, 90 >>
            /\ (T = 5 /\ N = 10) => got = << 0, 1, 2, 3, 4 >>

\* C4 witness: the sampler has run on T = 100, N = 10.
C4_Witness ==
    /\ SamplerDone("evenly_spaced")
    /\ sampler.T = 100
    /\ sampler.N = 10
    /\ sampler.frame_indices[10] = 90

\* The number of multiples of K in 0..T-1, i.e. ceil(T / K).
StrideCount(T, K) == Cardinality({ m \in 0..(T - 1) : m % K = 0 })

\* C5: the fixed-stride sampler yields 0, K, 2K, ... below T, cut to the
\* first N of them: min(N, ceil(T / K)) indices, the i-th (from 0) being i*K.
C5_IntervalValues ==
    SamplerDone("interval") =>
        LET got == sampler.frame_indices IN
        /\ Len(got) = Min(sampler.N, StrideCount(sampler.T, sampler.K))
        /\ \A i \in 1..Len(got) :
               got[i] = (i - 1) * sampler.K /\ got[i] < sampler.T

\* C5 witness: the sampler has run with a stride above 1 and a cap that cuts
\* the list.
C5_Witness ==
    /\ SamplerDone("interval")
    /\ sampler.K >= 2
    /\ sampler.N >= 2
    /\ sampler.N < StrideCount(sampler.T, sampler.K)
    /\ Len(sampler.frame_indices) = sampler.N

\* Recordings that were stopped: their writer has been released.
StoppedSessions == { w \in 1..Len(writers) : writers[w].state = "released" }

\* stop_recording has released the writer of session w and not yet reached
\* the start of the extraction thread (line 392).
LaunchPending(w) == ui_pc = "stop_launch" /\ w = StoppedSession

JobsOf(w) == { j \in 1..Len(jobs) : jobs[j].session = w }

\* The job has opened its source video and read its frame count.
JobOpened(job) == job.state \in {"extracting", "complete", "error"}

\* C6: a recording stopped with no frame in its file still gets an
\* extraction job, and a job that finds a frame count of 0 has an empty index
\* list, extracts no image, never enters the error branch and has nothing
\* left to do but complete.
C6_EmptyRecordingExtracts ==
    /\ \A w \in StoppedSessions :
           (files[writers[w].path] = 0 /\ ~LaunchPending(w)) => JobsOf(w) # {}
    /\ \A j \in 1..Len(jobs) :
           (JobOpened(jobs[j]) /\ jobs[j].total_frames = 0) =>
               /\ jobs[j].frame_indices = << >>
               /\ jobs[j].idx = 0
               /\ ImagesExtracted(jobs[j]) = 0
               /\ jobs[j].state # "error"

\* C6 witness: the job of a recording without frames is complete.
C6_Witness ==
    \E j \in 1..Len(jobs) :
        /\ jobs[j].state = "complete"
        /\ jobs[j].total_frames = 0
        /\ files[jobs[j].timestamp] = 0
        /\ frames_recorded = 0

\* C7: extraction jobs and stopped recordings correspond one to one: every
\* job belongs to a stopped recording (none to a start whose writer failed to
\* open), no recording has two jobs, and outside stop_recording the number of
\* jobs equals the number of stopped recordings.
C7_OneJobPerStoppedSession ==
    /\ \A j \in 1..Len(jobs) : jobs[j].session \in StoppedSessions
    /\ \A w \in 1..Len(writers) : Cardinality(JobsOf(w)) <= 1
    /\ Len(jobs) = Cardinality(StoppedSessions)
                       - (IF ui_pc = "stop_launch" THEN 1 ELSE 0)

\* C7 witness: two recordings were stopped, the second one by closing the
\* window, and two jobs were launched.
C7_Witness ==
    /\ Len(jobs) = 2
    /\ stop_caller = "closing"
    /\ Cardinality(StoppedSessions) = 2

\* A step of the capture thread that reads or writes is_recording,
\* video_writer or frames_recorded (lines 248, 250, 251).
CapAccessesRecordingState ==
    cap_pc \in {"rec", "write", "inc"} /\ cap_pc' # cap_pc

\* start_recording or stop_recording has touched the recording state and
\* will touch it again: after the writer was created (line 334) and before
\* the flag is set (line 345), or after the statistics were read (line 362)
\* and before the frame counter is last read (line 383).
UiInsideStartOrStop ==
    ui_pc \in {"start_reset", "start_flag", "stop_flag", "stop_release",
               "stop_launch"}

\* C8: every access of the capture thread to the recording flag, the writer
\* handle and the frame counter is serialized with start_recording and
\* stop_recording: the capture thread takes no step that reads or writes one
\* of them while either handler is between its own accesses.
C8_RecordingStateSerialized ==
    [][CapAccessesRecordingState => ~UiInsideStartOrStop]_vars

\* C9: an extraction job is launched only once stop_recording has cleared the
\* recording flag and released the writer of that recording, and no job ever
\* belongs to a recording whose writer is open.
C9_ExtractionAfterRelease ==
    /\ [](\A j \in 1..Len(jobs) : writers[jobs[j].session].state = "released")
    /\ [][Len(jobs') > Len(jobs) =>
             /\ ~is_recording
             /\ video_writer = NoWriter
             /\ writers[jobs'[Len(jobs')].session].state = "released"]_vars

\* C9 witness: a job has just been launched for a recording that had frames.
C9_Witness ==
    /\ Len(jobs) = 1
    /\ jobs[1].state = "launched"
    /\ files[jobs[1].timestamp] > 0
    /\ ui_pc = "idle"

\* join(timeout=1.0) of line 519 has returned (or was not needed).
JoinReturned == ui_pc \in {"close_destroy", "exited"}

\* C10: on shutdown the recording is stopped, then running is cleared, then
\* the capture thread is joined, then the camera is released, then the window
\* is closed: the camera is released only after the join has returned, and
\* only with running cleared and no recording active.
C10_ShutdownOrder ==
    camera = "released" => (JoinReturned /\ ~running /\ ~is_recording)

\* The job has printed its summary (lines 476-490) or reported that the
\* source file could not be opened (lines 417-420).
JobTerminal(job) == job.state \in {"complete", "failed_open"}

\* C11: an extraction job, once launched, is never cancelled: it reaches
\* "complete" or "failed to open the source file" whatever the main thread
\* does meanwhile (a new recording, on_closing). The process takes no step
\* after it has exited, so a job that has not finished by then never will:
\* when the process has exited every job launched has finished.
C11_ExtractionNeverCancelled ==
    ~ProcessAlive => \A j \in 1..Len(jobs) : JobTerminal(jobs[j])

\* The frame loop of job j takes a turn (lines 449-471).
LoopTurn(j) ==
    /\ j \in 1..Len(jobs)
    /\ jobs[j].state = "extracting"
    /\ jobs'[j] # jobs[j]
    /\ jobs'[j].state # "complete"

\* C12: every sampled index is attempted exactly once, in list order; a
\* decoded frame is written as exactly one image and counted, a failed decode
\* writes nothing and the loop goes on with the next index; the images
\* written are numbered 1, 2, 3, ... in sequence, and the success count
\* equals the number of images written and never exceeds the number of
\* indices attempted.
C12_EveryIndexOnceSequentialImages ==
    /\ [][\A j \in 1..Len(jobs) : LoopTurn(j) =>
             /\ jobs'[j].idx = jobs[j].idx + 1
             /\ jobs'[j].state = "extracting"
             /\ \/ /\ Cardinality(jobs'[j].images)
                          = Cardinality(jobs[j].images) + 1
                   /\ jobs[j].images \subseteq jobs'[j].images
                   /\ jobs'[j].images_extracted = jobs[j].images_extracted + 1
                \/ /\ jobs'[j].images = jobs[j].images
                   /\ jobs'[j].images_extracted = jobs[j].images_extracted]_vars
    /\ [](\A j \in 1..Len(jobs) :
             /\ jobs[j].images = 1..jobs[j].images_extracted
             /\ jobs[j].images_extracted = Cardinality(jobs[j].images)
             /\ jobs[j].images_extracted <= jobs[j].idx
             /\ jobs[j].state = "complete" =>
                    jobs[j].idx = Len(jobs[j].frame_indices))

\* update_preview has taken a frame from the queue: it is the only code that
\* removes one (line 276).
PreviewDequeues == Len(frame_queue') < Len(frame_queue)

\* The queue without its newest frame (the last one published).
WithoutNewest(q) == SubSeq(q, 1, Len(q) - 1)

\* C13: update_preview on a non-empty queue removes exactly one frame, the
\* newest one the queue holds, and on an empty queue it changes nothing; it
\* never waits for a frame.
C13_PreviewTakesNewest ==
    /\ [][PreviewDequeues =>
             /\ Len(frame_queue') = Len(frame_queue) - 1
             /\ frame_queue' = WithoutNewest(frame_queue)]_vars
    /\ []((ui_pc = "idle" /\ preview_scheduled) => ENABLED UpdatePreview)

\* C13 as the code has it: update_preview on a non-empty queue removes
\* exactly one frame, the oldest one the queue holds (queue.Queue is a FIFO),
\* and leaves the others in order; no other step removes a frame; the handler
\* never waits for a frame.
C13_PreviewTakesOldest ==
    /\ [][PreviewDequeues =>
             /\ ui_pc = "idle" /\ preview_scheduled
             /\ Len(frame_queue') = Len(frame_queue) - 1
             /\ frame_queue' = Tail(frame_queue)
             /\ \A i \in 1..Len(frame_queue) :
                    frame_queue[1] <= frame_queue[i]]_vars
    /\ []((ui_pc = "idle" /\ preview_scheduled) => ENABLED UpdatePreview)

\* C13 witness: frame 4 was dropped because the queue held frames 1, 2 and 3,
\* and update_preview has since taken frame 1, the oldest of the three.
C13_Witness ==
    /\ frames_read = BUFFER_SIZE + 1
    /\ cap_pc = "rec"
    /\ frame_queue = << 2, 3 >>

\* What a recording consists of and what decides it: the recording state,
\* the frames the camera has delivered, the lock, the position of the main
\* thread and the extraction jobs. The preview owns the rest: the queue and
\* its own timer.
RecordingView ==
    << recVars, frames_read, camera_lock, camera, running, ui_pc, stop_caller,
       current_video_timestamp, jobs >>

\* The capture thread is between reading a frame and the recording check of
\* line 248, the only stretch of code whose course depends on the queue.
CapPublishing == cap_pc \in {"full", "put"}

\* update_preview has run and scheduled itself no more (lines 301-302).
PreviewTimerStep ==
    ui_pc = "idle" /\ ui_pc' = "idle" /\ preview_scheduled' # preview_scheduled

\* C14: the preview has no effect on what is recorded. Two runs that differ
\* only in when update_preview runs differ only in the queue; they record
\* the same frames if no step lets the queue decide anything about the
\* recording, which is stated step by step:
\*  - a step that changes the queue, or that only stops the preview timer,
\*    leaves the recording view and the position of the capture thread
\*    outside the publishing stretch as they are;
\*  - whatever the queue holds, the publishing stretch ends at the recording
\*    check of line 248 with the recording view unchanged: a frame the full
\*    queue drops gets there like a frame it takes;
\*  - the recording check sends the frame to the writer exactly if a
\*    recording is active, and the write appends it to the open writer.
C14_PreviewDoesNotAffectRecording ==
    /\ [][(frame_queue' # frame_queue \/ PreviewTimerStep)
              => /\ UNCHANGED RecordingView
                 /\ cap_pc' # cap_pc => (cap_pc = "put" /\ cap_pc' = "rec")]_vars
    /\ [][(CapPublishing /\ cap_pc' # cap_pc)
              => /\ UNCHANGED RecordingView
                 /\ cap_pc' \in {"put", "rec"}
                 /\ cap_pc = "put" => cap_pc' = "rec"]_vars
    /\ [][(cap_pc = "rec" /\ cap_pc' # cap_pc)
              => /\ cap_pc' = (IF is_recording /\ video_writer # NoWriter
                               THEN "lock" ELSE "loop")
                 /\ UNCHANGED << RecordingView, frame_queue >>]_vars
    /\ [][(cap_pc = "write" /\ cap_pc' = "inc"
               /\ WriterIsOpened(writers[video_writer]))
              => files'[writers[video_writer].path]
                     = files[writers[video_writer].path] + 1]_vars

\* C14 witness: frame 4 found the queue full of frames 1, 2 and 3, was
\* dropped from the preview and has just been appended to the open writer of
\* the active recording.
C14_Witness ==
    /\ frames_read = BUFFER_SIZE + 1
    /\ frame_queue = << 1, 2, 3 >>
    /\ cap_pc = "inc"
    /\ is_recording
    /\ video_writer # NoWriter
    /\ WriterIsOpened(writers[video_writer])
    /\ files[writers[video_writer].path] >= 1

\* The writer self.video_writer refers to did not open.
WriterFailed == video_writer # NoWriter /\ writers[video_writer].state = "failed"

\* The capture thread executes line 250, self.video_writer.write(frame).
CapCallsWrite == cap_pc = "write" /\ cap_pc' # cap_pc /\ video_writer # NoWriter

\* C15: a start whose writer fails to open is aborted: the recording flag
\* stays false, the capture loop never hands a frame to the failed writer,
\* no extraction job is launched for it, and the next press of the button
\* attempts a start, not a stop.
C15_FailedWriterAbortsStart ==
    /\ [](WriterFailed => ~is_recording)
    /\ [][CapCallsWrite => ~WriterFailed]_vars
    /\ [](\A w \in 1..Len(writers) :
              writers[w].state = "failed" => JobsOf(w) = {})
    /\ []((WriterFailed /\ ui_pc = "idle") =>
              ToggleTarget(is_recording) = "start")

\* initialize_camera has failed: self.camera is None or did not open.
CameraFailed == camera \in {"none", "unopened"}

\* C16: with a camera that failed to open the capture loop stays idle for
\* good: the camera never opens later, the loop never reads a frame, never
\* publishes one and never writes one, and every request to start a
\* recording is rejected: the flag stays false and no writer is created.
C16_FailedCameraStaysIdle ==
    /\ [][CameraFailed => camera' = camera]_vars
    /\ [](CameraFailed =>
              /\ cap_pc \in {"loop", "exited"}
              /\ frames_read = 0
              /\ frame_queue = << >>
              /\ \A p \in DOMAIN files : files[p] = 0
              /\ ~is_recording
              /\ video_writer = NoWriter
              /\ writers = << >>
              /\ jobs = << >>
              /\ ui_pc \notin {"start_writer", "start_reset", "start_flag"})

\* C16 witness: the camera did not open, the button was pressed and the
\* start was rejected, and the capture loop is still polling.
C16_Witness ==
    /\ camera = "unopened"
    /\ start_rejected
    /\ ui_pc = "idle"
    /\ cap_pc = "loop"
    /\ running

\* The script has gone through the upload block of lines 84-96.
UploadBlockRuns == viewer.pc = "upload" /\ viewer'.pc = "navigation"

\* A file passes the validation the claim describes: its extension, whatever
\* its case, is one of the five allowed and its size is at most 50 MB.
FileAccepted(file) ==
    /\ Lower(file.suffix) \in {".png", ".jpg", ".jpeg", ".gif", ".bmp"}
    /\ file.size <= 50 * 1024 * 1024

\* The files of the batch that pass, each judged on its own, in upload order.
AcceptedOf(batch) == SelectSeq(batch, FileAccepted)

\* C17: for every uploaded batch each file is validated on its own, and the
\* image list of the session becomes exactly the valid files of the batch in
\* upload order, with the current index reset to 0.
C17_BatchBecomesImageList ==
    [][(UploadBlockRuns /\ viewer.uploaded # << >>) =>
           /\ viewer'.images = AcceptedOf(viewer.uploaded)
           /\ viewer'.current_index = 0]_vars

\* C17 as the code has it: a batch with at least one valid file replaces the
\* image list by exactly its valid files, in upload order, and resets the
\* index to 0; a batch without a valid file leaves list and index alone.
C17_ValidFilesReplaceImageList ==
    [][UploadBlockRuns =>
           IF AcceptedOf(viewer.uploaded) # << >>
           THEN /\ viewer'.images = AcceptedOf(viewer.uploaded)
                /\ viewer'.current_index = 0
           ELSE /\ viewer'.images = viewer.images
                /\ viewer'.current_index = viewer.current_index]_vars

\* C17 witness: the upload block has run on a batch whose first file was
\* rejected and whose second file is now the only image.
C17_Witness ==
    /\ viewer.pc = "navigation"
    /\ Len(viewer.uploaded) = 2
    /\ ~FileAccepted(viewer.uploaded[1])
    /\ FileAccepted(viewer.uploaded[2])
    /\ viewer.images = << viewer.uploaded[2] >>
    /\ viewer.current_index = 0

\* The capture thread is at line 250 and takes its step there.
CapAtWrite == cap_pc = "write" /\ cap_pc' # cap_pc

\* C18: under every interleaving of the capture thread with stop_recording
\* and a following start_recording, line 250 is only ever executed on the
\* open writer of the active recording, never on a writer that was released
\* or on None, and the capture thread is never ended by such a write.
C18_WriteOnlyToOpenWriter ==
    /\ [][CapAtWrite =>
             /\ video_writer # NoWriter
             /\ WriterIsOpened(writers[video_writer])]_vars
    /\ [](cap_pc # "crashed")

\* Frames in the file of the writer self.video_writer refers to.
FramesInCurrentFile == files[writers[video_writer].path]

\* The capture thread has appended a frame and not yet counted it (between
\* lines 250 and 251, inside the lock).
CountPending == IF cap_pc = "inc" THEN 1 ELSE 0

\* C19: for every recording and every interleaving, frames_recorded equals
\* the number of frames appended to the writer of that recording: it is 0
\* when the recording becomes active, it grows by exactly one with each frame
\* appended, and the value stop_recording reports (lines 378, 383) is the
\* number of frames in the closed file.
C19_CounterMatchesFile ==
    /\ [][(~is_recording /\ is_recording') =>
              (frames_recorded' = 0 /\ FramesInCurrentFile' = 0)]_vars
    /\ []((is_recording /\ video_writer # NoWriter) =>
              frames_recorded + CountPending = FramesInCurrentFile)
    /\ [](ui_pc = "stop_launch" =>
              frames_recorded = files[writers[StoppedSession].path])

\* Recordings: the writers that opened.
Sessions == { w \in 1..Len(writers) : writers[w].state \in {"open", "released"} }

\* The job has its source video open (lines 415-474).
JobReading(job) == job.state = "extracting"

\* C20: an extraction job only reads a completed file: while a job reads its
\* source video no recording has an open writer on that path; and two
\* recordings never share a video path (hence an image folder, which is named
\* by the same timestamp), also when the second is started within the second
\* in which the first was started.
C20_JobReadsCompletedFile ==
    /\ \A j \in 1..Len(jobs) : JobReading(jobs[j]) =>
           \A w \in OpenWriters : writers[w].path # jobs[j].timestamp
    /\ \A v, w \in Sessions : v # w => writers[v].path # writers[w].path

\* An iteration of the capture loop ends without a frame (ret is False at
\* line 239).
ReadYieldsNoFrame == cap_pc = "read" /\ cap_pc' = "loop"

FrameEffects == << frame_queue, video_writer, writers, files, frames_recorded >>

\* C21: an iteration of the capture loop whose read yields no frame leaves
\* the queue, the writer and the frame counter unchanged and the loop goes on
\* with the next iteration; and a frame read while no recording is active
\* never gets to lines 250-251: it is not appended to any writer and does not
\* change the frame counter.
C21_NoFrameNoSessionNoEffect ==
    /\ [][ReadYieldsNoFrame => UNCHANGED FrameEffects]_vars
    /\ [][(read_idle /\ CapAtWrite) =>
              (files' = files /\ cap_pc' # "inc")]_vars

\* The check of line 248 finds no recording to write to.
CheckFindsNoSession ==
    /\ cap_pc = "rec" /\ cap_pc' # cap_pc
    /\ ~(is_recording /\ video_writer # NoWriter)

\* C21 as the code has it: an iteration whose read yields no frame has no
\* effect and the loop goes on; and a frame for which the check of line 248
\* finds no active recording is let go: it is not appended to any writer and
\* does not change the frame counter, and the loop goes on.
C21_NoFrameOrNoSessionAtCheck ==
    /\ [][ReadYieldsNoFrame => UNCHANGED FrameEffects]_vars
    /\ [][CheckFindsNoSession =>
              /\ cap_pc' = "loop"
              /\ UNCHANGED << video_writer, writers, files, frames_recorded >>]_vars
    /\ [][(files' # files \/ frames_recorded' > frames_recorded) =>
              cap_pc \in {"write", "inc"} \/ ui_pc = "start_writer"]_vars

\* C21 witness: two frames were read, queued and let go with no recording
\* ever started; no file and no counter has changed.
C21_Witness ==
    /\ frames_read = 2
    /\ cap_pc = "loop"
    /\ frame_queue = << 1, 2 >>
    /\ writers = << >>
    /\ frames_recorded = 0
    /\ \A p \in DOMAIN files : files[p] = 0

\* ------------------------------------------------------------------- C22
\* on_closing is past its call of stop_recording (lines 506-510): at line 512
\* or later, or returned.
ClosingPastStop ==
    ui_pc \in {"close_running", "close_camera", "close_join", "close_destroy",
               "exited"}

\* The capture thread runs no more: it left its loop, an exception ended it,
\* or the process ended with it.
CaptureEnded == ~CaptureAlive \/ ~ProcessAlive

\* The capture thread passes the loop test of line 233.
LoopTest == cap_pc = "loop" /\ cap_pc' # cap_pc

\* C22: once on_closing has set running to False, the capture thread
\* eventually runs no more, its next loop test ends the loop, and the preview
\* tick is not scheduled again; once on_closing is past stop_recording, and so
\* after it has returned, no session is active, no writer is open, and no
\* step appends a frame to any file.
C22_ShutdownEndsCaptureAndRecording ==
    /\ ~running ~> CaptureEnded
    /\ [][(~running /\ LoopTest) => cap_pc' = "exited"]_vars
    /\ [][~running => (preview_scheduled' => preview_scheduled)]_vars
    /\ [](~ProcessAlive => ~preview_scheduled)
    /\ [](ClosingPastStop => (~is_recording /\ OpenWriters = {}))
    /\ [][ClosingPastStop => files' = files]_vars

\* on_closing stopped a recording with a frame in its file and returned, and
\* the capture thread had left its loop.
C22_Witness ==
    /\ ui_pc = "exited"
    /\ stop_caller = "closing"
    /\ cap_pc = "exited"
    /\ ~running
    /\ writers # << >>
    /\ files[writers[Len(writers)].path] > 0

\* ------------------------------------------------------------------- C23
\* The script is at line 156, where the current image is taken from the list.
AtDisplay == viewer.pc = "display"

\* The run that the user's last action started has reached line 156, with
\* the reruns that the action asked for behind it.
Shown(action) == AtDisplay /\ viewer.action = action

LastIndex == Len(viewer.images) - 1

\* C23: where the current image is displayed, a non-empty image list has
\* 0 <= current_index <= len(images) - 1; Previous at index 0 and Next at the
\* last index leave the index where it was; New Session leaves an empty list
\* and index 0.
C23_IndexInRangeAndNewSessionClears ==
    /\ (AtDisplay /\ viewer.images # << >>) =>
           viewer.current_index \in 0..LastIndex
    /\ viewer.pc # "crashed"
    /\ (Shown("previous") /\ viewer.shown = 0) => viewer.current_index = 0
    /\ (Shown("next") /\ viewer.shown = LastIndex) =>
           viewer.current_index = viewer.shown
    /\ Shown("new_session") =>
           (viewer.images = << >> /\ viewer.current_index = 0)

=============================================================================
